---- MODULE Spec2Model ----
(***************************************************************************)
(* fastdns.resolver.Resolver: a caller thread runs resolve()/clear() on    *)
(* one Resolver instance; resolve() starts daemon worker threads (_run)    *)
(* that drain a queue.Queue of (host, server) jobs, call dns_lookup and    *)
(* merge the answer into self.cache under a lock (_update_cache).          *)
(*                                                                         *)
(* Each Queue that resolve() creates takes a free slot of 1..MaxQueues.    *)
(* The worker threads of one queue are interchangeable, so a pool is kept  *)
(* as the number of threads started on the queue; a thread that holds a    *)
(* job is the job's record (its position in _run/_update_cache), every     *)
(* other thread of the pool is blocked in q.get().  Once clear() has       *)
(* dropped self.q, a drained queue is referenced by its blocked threads    *)
(* only: they can never run again, and the slot is freed.                  *)
(***************************************************************************)
EXTENDS Integers, Sequences, FiniteSets, TLC

\* ---- bounds of the model ------------------------------------------------
\* queues alive at a time
MaxQueues == 2
\* largest value of the `tries` argument
MaxTries == 2
\* jobs enqueued over the life of the instance
MaxJobs == 4
\* the same when two callers share the instance
MaxJobsConc == 1
\* resolver.py:302 sets max_workers = 510; the model scales the cap down so
\* that a run with more jobs than workers is reachable
max_workers == 2

Hosts == {"a", "b"}
Servers == {"n1", "n2"}
IPs == {"i1", "i2"}
Callers == {1, 2}
Queues == 1..MaxQueues

\* values of Resolver.hostnames and Resolver.nameservers
HostLists == {<<>>, <<"a">>, <<"a", "b">>}
ServerLists == {<<>>, <<"n1">>, <<"n1", "n2">>}

VARIABLES
    hostnames,     \* self.hostnames
    nameservers,   \* self.nameservers
    tries,         \* self.tries
    cache,         \* self.cache: a function from the keys present to sets
    q,             \* self.q: 0 is None, else the queue's slot
    workers,       \* self.workers: FALSE is None, TRUE is True
    dead_hosts,    \* self.dead_hosts; {} while the attribute is not set yet
    jobs,          \* jobs[g]: the jobs put on queue g so far, in put order
    unfinished,    \* unfinished[g]: Queue.unfinished_tasks of queue g
    nworkers,      \* nworkers[g]: threads started with queue g
    lock,          \* lock[g]: 0 free, else the job whose thread holds it
    pc,            \* pc[c]: where caller c is in resolve()
    lq,            \* lq[c]: the local q of caller c's resolve(), 0 while it has none
    jq,            \* jq[c]: the queue caller c's q.join() waits on
    enqueued,      \* history: jobs put on any queue so far
    reported,      \* history: reported[g][h], the dns_lookup answers for h in run g,
                   \* kept until the resolve() call that started run g returns
    answers,       \* history: answers[h], the dns_lookup answers for h since
                   \* self.cache was last replaced
    reset,         \* history: clear() has replaced self.cache and no resolve() has returned since
    fresh,         \* history: no resolve() has returned yet
    overlap        \* history: overlap[c], another resolve() was running when c entered

vars == <<hostnames, nameservers, tries, cache, q, workers, dead_hosts, jobs,
          unfinished, nworkers, lock, pc, lq, jq, enqueued, reported, answers, reset, fresh, overlap>>

config == <<hostnames, nameservers, tries>>
engine == <<cache, q, workers, dead_hosts>>
pool == <<jobs, unfinished, nworkers, lock>>
history == <<enqueued, reported, answers, reset, fresh>>
locals == <<lq, jq>>

\* ---- pure helpers -------------------------------------------------------
EmptyCache == [h \in {} |-> {}]

\* inner loop of _create_workers: for server in self.nameservers: q.put((host, server))
ServerLoop(host, ns) == [k \in 1..Len(ns) |-> [host |-> host, server |-> ns[k]]]

RECURSIVE HostLoop(_, _)
\* middle loop of _create_workers: for host in self.hostnames
HostLoop(hs, ns) ==
    IF hs = <<>> THEN <<>> ELSE ServerLoop(Head(hs), ns) \o HostLoop(Tail(hs), ns)

\* a bug: the loop over range(self.tries) is missing
TryLoopOnce(t, hs, ns) == HostLoop(hs, ns)

RECURSIVE TryLoop(_, _, _)
\* outer loop of _create_workers: for i in range(self.tries)
TryLoop(t, hs, ns) ==
    IF t <= 0 THEN <<>> ELSE HostLoop(hs, ns) \o TryLoop(t - 1, hs, ns)

\* num_queries of resolve()
num_queries(hs, t, ns) == Len(hs) * t * Len(ns)

\* the num_workers argument resolve() passes to _create_workers
pool_size(hs, t, ns) ==
    IF hs # <<>>
    THEN IF num_queries(hs, t, ns) > max_workers
         THEN max_workers
         ELSE num_queries(hs, t, ns)
    ELSE max_workers

\* a bug: the set is added to, not computed afresh
process_dead_hosts_accumulated(c) == dead_hosts \cup {h \in DOMAIN c : c[h] = {}}

\* a bug: the test of line 291 inverted
process_dead_hosts_inverted(c) == {h \in DOMAIN c : c[h] # {}}

\* _process_dead_hosts
process_dead_hosts(c) == {h \in DOMAIN c : c[h] = {}}

\* one job record as it is put on the queue
NewJob(j) == [host |-> j.host, server |-> j.server, st |-> "queued", ips |-> {}]

InFlight == {"lookup", "acquire", "check", "create", "add", "release", "task_done"}

\* threads of pool g that hold a job
Busy(g) == Cardinality({i \in 1..Len(jobs[g]) : jobs[g][i].st \in InFlight})

\* the item q.get() returns: the oldest job still on the queue
QueueHead(g) ==
    CHOOSE i \in 1..Len(jobs[g]) :
        /\ jobs[g][i].st = "queued"
        /\ \A k \in 1..(i - 1) : jobs[g][k].st # "queued"

Running(c) == pc[c] \notin {"off", "idle"}
NoCallRunning == \A c \in Callers : ~Running(c)

Shared == pc[2] # "off"
JobBound == IF Shared THEN MaxJobsConc ELSE MaxJobs

\* every job put on queue g is done
AllDone(g) == \A i \in 1..Len(jobs[g]) : jobs[g][i].st = "done"

\* nothing of the program refers to slot g
Free(g) ==
    /\ nworkers[g] = 0
    /\ jobs[g] = <<>>
    /\ q # g
    /\ \A c \in Callers : lq[c] # g /\ jq[c] # g

FreeSlot == CHOOSE g \in Queues : Free(g) /\ \A k \in 1..(g - 1) : ~Free(k)

SetJob(g, i, st, ips) ==
    jobs' = [jobs EXCEPT ![g][i] = [@ EXCEPT !.st = st, !.ips = ips]]

\* ---- initial states -----------------------------------------------------
\* Resolver.__init__
Constructed ==
    /\ hostnames \in HostLists
    /\ nameservers \in ServerLists
    /\ tries \in 0..MaxTries
    /\ cache = EmptyCache
    /\ q = 0
    /\ workers = FALSE
    /\ dead_hosts = {}
    /\ jobs = [g \in Queues |-> <<>>]
    /\ unfinished = [g \in Queues |-> 0]
    /\ nworkers = [g \in Queues |-> 0]
    /\ lock = [g \in Queues |-> 0]
    /\ lq = [c \in Callers |-> 0]
    /\ jq = [c \in Callers |-> 0]
    /\ enqueued = 0
    /\ reported = [g \in Queues |-> [h \in Hosts |-> {}]]
    /\ answers = [h \in Hosts |-> {}]
    /\ reset = FALSE
    /\ fresh = TRUE
    /\ overlap = [c \in Callers |-> FALSE]

\* one thread uses the instance
Init ==
    /\ Constructed
    /\ pc = [c \in Callers |-> IF c = 1 THEN "idle" ELSE "off"]
    /\ num_queries(hostnames, tries, nameservers) <= MaxJobs

\* two threads use the instance
InitConc ==
    /\ Constructed
    /\ pc = [c \in Callers |-> "idle"]
    /\ num_queries(hostnames, tries, nameservers) <= MaxJobsConc

\* ---- the caller: attribute assignment, clear(), resolve() ---------------
\* r.hostnames = hs, between calls
SetHostnames(c, hs) ==
    /\ pc[c] = "idle"
    /\ NoCallRunning
    /\ hs # hostnames
    /\ num_queries(hs, tries, nameservers) <= JobBound
    /\ hostnames' = hs
    /\ UNCHANGED <<nameservers, tries, engine, pool, pc, locals, history, overlap>>

\* clear(cache=b)
clear(c, b) ==
    /\ pc[c] = "idle"
    /\ NoCallRunning
    /\ hostnames' = <<>>
    /\ cache' = IF b THEN EmptyCache ELSE cache
    /\ q' = 0
    /\ workers' = FALSE
    /\ reset' = (b \/ reset)
    /\ answers' = IF b THEN [h \in Hosts |-> {}] ELSE answers
    /\ nworkers' = [g \in Queues |-> IF AllDone(g) /\ unfinished[g] = 0 THEN 0 ELSE nworkers[g]]
    /\ UNCHANGED <<nameservers, tries, dead_hosts, jobs, unfinished, lock, pc, locals,
                   enqueued, reported, fresh, overlap>>

\* resolve(), lines 301-303: entry
resolve_enter(c) ==
    /\ pc[c] = "idle"
    /\ \E g \in Queues : Free(g)
    /\ workers \/ enqueued + num_queries(hostnames, tries, nameservers) <= JobBound
    /\ lq' = [lq EXCEPT ![c] = 0]
    /\ overlap' = [overlap EXCEPT ![c] = \E d \in Callers \ {c} : Running(d)]
    /\ pc' = [pc EXCEPT ![c] = "test"]
    /\ UNCHANGED <<config, engine, pool, jq, history>>

\* resolve(), lines 305-314 and _create_workers lines 274-277: the test of
\* self.workers, the new Queue and the threads started on it (the queue is
\* empty and local until the first put)
resolve_start(c) ==
    /\ pc[c] = "test"
    /\ workers \/ \E g \in Queues : Free(g)
    /\ IF ~workers
       THEN /\ lq' = [lq EXCEPT ![c] = FreeSlot]
            /\ nworkers' = [nworkers EXCEPT ![FreeSlot] = pool_size(hostnames, tries, nameservers)]
            /\ pc' = [pc EXCEPT ![c] = "put"]
       ELSE /\ lq' = lq
            /\ nworkers' = nworkers
            /\ pc' = [pc EXCEPT ![c] = "join"]
    /\ UNCHANGED <<config, engine, jobs, unfinished, lock, jq, history, overlap>>

\* _create_workers, lines 279-282: one q.put((host, server))
create_workers_put(c) ==
    /\ pc[c] = "put"
    /\ Len(jobs[lq[c]]) < Len(TryLoop(tries, hostnames, nameservers))
    /\ jobs' = [jobs EXCEPT ![lq[c]] =
                   Append(@, NewJob(TryLoop(tries, hostnames, nameservers)[Len(@) + 1]))]
    /\ unfinished' = [unfinished EXCEPT ![lq[c]] = @ + 1]
    /\ enqueued' = enqueued + 1
    /\ UNCHANGED <<config, engine, nworkers, lock, pc, locals, reported, answers, reset, fresh, overlap>>

\* resolve(), line 316, once the loops of _create_workers are over
resolve_set_workers(c) ==
    /\ pc[c] = "put"
    /\ Len(jobs[lq[c]]) >= Len(TryLoop(tries, hostnames, nameservers))
    /\ workers' = TRUE
    /\ pc' = [pc EXCEPT ![c] = "set_q"]
    /\ UNCHANGED <<config, cache, q, dead_hosts, pool, locals, history, overlap>>

\* resolve(), line 317
resolve_set_q(c) ==
    /\ pc[c] = "set_q"
    /\ q' = lq[c]
    /\ pc' = [pc EXCEPT ![c] = "join"]
    /\ UNCHANGED <<config, cache, workers, dead_hosts, pool, locals, history, overlap>>

\* resolve(), line 322: self.q is read; None has no join()
resolve_join(c) ==
    /\ pc[c] = "join"
    /\ jq' = [jq EXCEPT ![c] = q]
    /\ pc' = [pc EXCEPT ![c] = IF q = 0 THEN "error" ELSE "joining"]
    /\ UNCHANGED <<config, engine, pool, lq, history, overlap>>

\* a bug: waiting for the queue to be empty, not for every task to be done
JoinReadyWhenEmpty(g) == \A i \in 1..Len(jobs[g]) : jobs[g][i].st # "queued"

\* a bug: waiting for the worker threads to end as well
JoinReadyWhenThreadsEnd(g) == unfinished[g] = 0 /\ nworkers[g] = 0

\* Queue.join(): returns when unfinished_tasks is zero
JoinReady(g) == unfinished[g] = 0

\* resolve(), line 322: q.join() returns
resolve_joined(c) ==
    /\ pc[c] = "joining"
    /\ JoinReady(jq[c])
    /\ pc' = [pc EXCEPT ![c] = "dead"]
    /\ UNCHANGED <<config, engine, pool, locals, history, overlap>>

\* a bug: the interrupt is swallowed and resolve() goes on as if drained
sys_exit_swallowed == "dead"

\* resolve(), line 324: sys.exit(1) raises SystemExit out of resolve()
sys_exit == "exit"

\* resolve(), lines 323-324: KeyboardInterrupt, which Python raises in the
\* main thread only (caller 1), while it is inside self.q.join(). The worker
\* threads are daemons: they run on until the interpreter is torn down
resolve_interrupt(c) ==
    /\ c = 1
    /\ pc[c] = "joining"
    /\ pc' = [pc EXCEPT ![c] = sys_exit]
    /\ UNCHANGED <<config, engine, pool, locals, history, overlap>>

\* resolve(), line 326
resolve_dead_hosts(c) ==
    /\ pc[c] = "dead"
    /\ dead_hosts' = process_dead_hosts(cache)
    /\ pc' = [pc EXCEPT ![c] = "returned"]
    /\ UNCHANGED <<config, cache, q, workers, pool, locals, history, overlap>>

\* resolve(), line 329: the caller has the cache and goes on; the locals of
\* the call are gone, and so is the record of the jobs it saw done
resolve_return(c) ==
    /\ pc[c] = "returned"
    /\ pc' = [pc EXCEPT ![c] = "idle"]
    /\ lq' = [lq EXCEPT ![c] = 0]
    /\ jq' = [jq EXCEPT ![c] = 0]
    /\ overlap' = [overlap EXCEPT ![c] = FALSE]
    /\ reset' = FALSE
    /\ fresh' = FALSE
    /\ IF lq[c] # 0 /\ AllDone(lq[c])
       THEN /\ jobs' = [jobs EXCEPT ![lq[c]] = <<>>]
            /\ reported' = [reported EXCEPT ![lq[c]] = [h \in Hosts |-> {}]]
       ELSE UNCHANGED <<jobs, reported>>
    /\ UNCHANGED <<config, engine, unfinished, nworkers, lock, enqueued, answers>>

\* ---- a worker thread: _run and _update_cache ----------------------------
\* _run, line 228: q.get() by a thread of pool g that holds no job
run_get(g) ==
    /\ Busy(g) < nworkers[g]
    /\ \E i \in 1..Len(jobs[g]) : jobs[g][i].st = "queued"
    /\ SetJob(g, QueueHead(g), "lookup", {})
    /\ UNCHANGED <<config, engine, unfinished, nworkers, lock, pc, locals, history, overlap>>

\* dns_lookup: None on any failure, else the set of addresses answered; the
\* empty set stands for None, which _run treats alike (lines 231-234)
dns_lookup == SUBSET IPs

\* a bug: a failed lookup raises in _run and the thread ends, its job undone
AfterLookupDiesOnFailure(ips) == IF ips = {} THEN "crashed" ELSE "acquire"

\* _run, lines 231-234: both branches call _update_cache, with ips or set()
AfterLookup(ips) == "acquire"

\* _run, lines 230-234: the lookup and the choice of _update_cache's argument
run_lookup(g, i) ==
    /\ jobs[g][i].st = "lookup"
    /\ \E ips \in dns_lookup :
          /\ SetJob(g, i, AfterLookup(ips), ips)
          /\ reported' = [reported EXCEPT ![g][jobs[g][i].host] = @ \cup ips]
          /\ answers' = [answers EXCEPT ![jobs[g][i].host] = @ \cup ips]
    /\ UNCHANGED <<config, engine, unfinished, nworkers, lock, pc, locals, enqueued, reset, fresh, overlap>>

\* a bug: no mutual exclusion
LockFreeAlways(g) == TRUE

\* lock.acquire() can return
LockFree(g) == lock[g] = 0

\* _update_cache, line 248
update_cache_acquire(g, i) ==
    /\ jobs[g][i].st = "acquire"
    /\ LockFree(g)
    /\ lock' = [lock EXCEPT ![g] = i]
    /\ SetJob(g, i, "check", jobs[g][i].ips)
    /\ UNCHANGED <<config, engine, unfinished, nworkers, pc, locals, history, overlap>>

\* a bug: the test of line 261 is missing, an empty result always stores set()
MergeBranchAlwaysCreate(c, host, ips) ==
    IF ips # {}
    THEN IF host \notin DOMAIN c THEN "create" ELSE "add"
    ELSE "create"

\* a bug: the else branch of _update_cache (lines 260-262) is missing
MergeBranchNoElse(c, host, ips) ==
    IF ips # {}
    THEN IF host \notin DOMAIN c THEN "create" ELSE "add"
    ELSE "release"

\* _update_cache, lines 251-255 and 260-262: where the merge goes next. No
\* value of self.cache is ever None (lines 253, 255, 262 and clear() store
\* sets), so the test of line 254 is always false
MergeBranch(c, host, ips) ==
    IF ips # {}
    THEN IF host \notin DOMAIN c THEN "create" ELSE "add"
    ELSE IF host \notin DOMAIN c THEN "create" ELSE "release"

\* _update_cache, lines 251-255 and 261: is there an entry to create
update_cache_check(g, i) ==
    /\ jobs[g][i].st = "check"
    /\ SetJob(g, i, MergeBranch(cache, jobs[g][i].host, jobs[g][i].ips), jobs[g][i].ips)
    /\ UNCHANGED <<config, engine, unfinished, nworkers, lock, pc, locals, history, overlap>>

\* self.cache[host] = set()
NewEntry(c, host) == [h \in DOMAIN c \cup {host} |-> IF h = host THEN {} ELSE c[h]]

\* _update_cache, lines 253 and 262
update_cache_create(g, i) ==
    /\ jobs[g][i].st = "create"
    /\ cache' = NewEntry(cache, jobs[g][i].host)
    /\ SetJob(g, i, IF jobs[g][i].ips # {} THEN "add" ELSE "release", jobs[g][i].ips)
    /\ UNCHANGED <<config, q, workers, dead_hosts, unfinished, nworkers, lock, pc, locals, history, overlap>>

\* a bug: the entry is replaced, not added to
AddIpReplace(c, host, ip) == [c EXCEPT ![host] = {ip}]

\* self.cache[host].add(ip); KeyError when the entry is gone cannot happen
\* here, NewEntry never removes a key
AddIp(c, host, ip) == [c EXCEPT ![host] = @ \cup {ip}]

\* _update_cache, lines 257-259: one turn of the loop over ips
update_cache_add(g, i) ==
    /\ jobs[g][i].st = "add"
    /\ \E ip \in jobs[g][i].ips :
          /\ cache' = AddIp(cache, jobs[g][i].host, ip)
          /\ SetJob(g, i, IF jobs[g][i].ips = {ip} THEN "release" ELSE "add",
                    jobs[g][i].ips \ {ip})
    /\ UNCHANGED <<config, q, workers, dead_hosts, unfinished, nworkers, lock, pc, locals, history, overlap>>

\* a bug: the merge returns without lock.release()
lock_release_missing(l, g) == l

\* lock.release()
lock_release(l, g) == [l EXCEPT ![g] = 0]

\* _update_cache, lines 263-264: the finally clause, the one way out
update_cache_release(g, i) ==
    /\ jobs[g][i].st = "release"
    /\ lock' = lock_release(lock, g)
    /\ SetJob(g, i, "task_done", {})
    /\ UNCHANGED <<config, engine, unfinished, nworkers, pc, locals, history, overlap>>

\* what is left of a job once its thread is back at q.get(): the tuple is
\* dropped, the place in the put order is kept
Done == [host |-> "", server |-> "", st |-> "done", ips |-> {}]

\* a bug: _run goes back to q.get() without q.task_done()
task_done_missing(u, g) == u

\* Queue.task_done(): one unfinished task less
task_done(u, g) == [u EXCEPT ![g] = @ - 1]

\* _run, line 235: q.task_done(), and the thread is back at q.get()
run_task_done(g, i) ==
    /\ jobs[g][i].st = "task_done"
    /\ unfinished' = task_done(unfinished, g)
    /\ jobs' = [jobs EXCEPT ![g][i] = Done]
    /\ UNCHANGED <<config, engine, nworkers, lock, pc, locals, history, overlap>>

\* ---- the system ---------------------------------------------------------
Next ==
    \/ \E c \in Callers, hs \in HostLists : SetHostnames(c, hs)
    \/ \E c \in Callers, b \in BOOLEAN : clear(c, b)
    \/ \E c \in Callers : resolve_enter(c)
    \/ \E c \in Callers : resolve_start(c)
    \/ \E c \in Callers : create_workers_put(c)
    \/ \E c \in Callers : resolve_set_workers(c)
    \/ \E c \in Callers : resolve_set_q(c)
    \/ \E c \in Callers : resolve_join(c)
    \/ \E c \in Callers : resolve_joined(c)
    \/ \E c \in Callers : resolve_interrupt(c)
    \/ \E c \in Callers : resolve_dead_hosts(c)
    \/ \E c \in Callers : resolve_return(c)
    \/ \E g \in Queues : run_get(g)
    \/ \E g \in Queues : \E i \in 1..Len(jobs[g]) : run_lookup(g, i)
    \/ \E g \in Queues : \E i \in 1..Len(jobs[g]) : update_cache_acquire(g, i)
    \/ \E g \in Queues : \E i \in 1..Len(jobs[g]) : update_cache_check(g, i)
    \/ \E g \in Queues : \E i \in 1..Len(jobs[g]) : update_cache_create(g, i)
    \/ \E g \in Queues : \E i \in 1..Len(jobs[g]) : update_cache_add(g, i)
    \/ \E g \in Queues : \E i \in 1..Len(jobs[g]) : update_cache_release(g, i)
    \/ \E g \in Queues : \E i \in 1..Len(jobs[g]) : run_task_done(g, i)

Spec == Init /\ [][Next]_vars

SpecConc == InitConc /\ [][Next]_vars

\* the steps of the thread that holds job i of queue g; every dns_lookup
\* call returns (it is bounded by r.lifetime = timeout, line 175)
WorkerStep(g, i) ==
    /\ i <= Len(jobs[g])
    /\ \/ run_lookup(g, i)
       \/ update_cache_acquire(g, i)
       \/ update_cache_check(g, i)
       \/ update_cache_create(g, i)
       \/ update_cache_add(g, i)
       \/ update_cache_release(g, i)
       \/ run_task_done(g, i)

\* the steps of caller c's resolve() call
ResolveStep(c) ==
    \/ resolve_start(c)
    \/ create_workers_put(c)
    \/ resolve_set_workers(c)
    \/ resolve_set_q(c)
    \/ resolve_join(c)
    \/ resolve_joined(c)
    \/ resolve_dead_hosts(c)

\* every thread that can run does run: the caller inside resolve(), a thread
\* blocked in q.get() while the queue has a job, a thread that holds a job
Fairness ==
    /\ \A c \in Callers : WF_vars(ResolveStep(c))
    /\ \A g \in Queues : WF_vars(run_get(g))
    /\ \A g \in Queues : \A i \in 1..MaxJobs : WF_vars(WorkerStep(g, i))

\* one caller thread that calls resolve() on the instance as constructed, and
\* again; nothing interrupts it
NextLive ==
    \/ \E c \in Callers : resolve_enter(c)
    \/ \E c \in Callers : resolve_start(c)
    \/ \E c \in Callers : create_workers_put(c)
    \/ \E c \in Callers : resolve_set_workers(c)
    \/ \E c \in Callers : resolve_set_q(c)
    \/ \E c \in Callers : resolve_join(c)
    \/ \E c \in Callers : resolve_joined(c)
    \/ \E c \in Callers : resolve_dead_hosts(c)
    \/ \E c \in Callers : resolve_return(c)
    \/ \E g \in Queues : run_get(g)
    \/ \E g \in Queues : \E i \in 1..Len(jobs[g]) : run_lookup(g, i)
    \/ \E g \in Queues : \E i \in 1..Len(jobs[g]) : update_cache_acquire(g, i)
    \/ \E g \in Queues : \E i \in 1..Len(jobs[g]) : update_cache_check(g, i)
    \/ \E g \in Queues : \E i \in 1..Len(jobs[g]) : update_cache_create(g, i)
    \/ \E g \in Queues : \E i \in 1..Len(jobs[g]) : update_cache_add(g, i)
    \/ \E g \in Queues : \E i \in 1..Len(jobs[g]) : update_cache_release(g, i)
    \/ \E g \in Queues : \E i \in 1..Len(jobs[g]) : run_task_done(g, i)

SpecLive == Init /\ [][NextLive]_vars /\ Fairness

\* ---- what the claims speak of -------------------------------------------
\* the targets configured, as a set
Targets == {hostnames[k] : k \in 1..Len(hostnames)}

\* the jobs resolve() enqueues under the present configuration
Enumerated == TryLoop(tries, hostnames, nameservers)

\* caller c's resolve() created a queue and a pool, and q.join() has returned
RunOver(c) == pc[c] \in {"dead", "returned"} /\ lq[c] # 0

\* every answer reported for h since the present cache object was made
ReportedFor(h) == answers[h]

\* threads of pool g: _run never returns, so every thread started is alive
Alive(g) == nworkers[g]

\* ---- claims -------------------------------------------------------------
\* C1: when a resolve() call that started a run is past q.join() (and when
\* it returns), every job of the run has been enqueued and marked done, none
\* is queued or in flight, and every answer reported in the run is in the
\* cache under its target.
C1_RunCompleteAtReturn ==
    \A c \in Callers :
        RunOver(c) =>
            /\ Len(jobs[lq[c]]) = Len(Enumerated)
            /\ unfinished[lq[c]] = 0
            /\ \A i \in 1..Len(jobs[lq[c]]) :
                  /\ jobs[lq[c]][i].st = "done"
                  /\ Enumerated[i].host \in DOMAIN cache
                  /\ reported[lq[c]][Enumerated[i].host] \subseteq cache[Enumerated[i].host]

C1_Witness ==
    /\ pc[1] = "returned"
    /\ lq[1] # 0
    /\ Len(jobs[lq[1]]) >= 2
    /\ \E h \in Hosts : reported[lq[1]][h] # {}

\* C2: with at least two worker threads and at least two targets, once the
\* queue of a run has drained, cache[T] is exactly the union of the answers
\* reported for T (nothing reported is lost, nothing else is there), and a
\* target without entry has had nothing reported.
C2_CacheIsUnionOfReports ==
    \A c \in Callers :
        (RunOver(c) /\ nworkers[lq[c]] >= 2 /\ Cardinality(Targets) >= 2) =>
            \A h \in Hosts :
                IF h \in DOMAIN cache
                THEN cache[h] = ReportedFor(h)
                ELSE ReportedFor(h) = {}

C2_Witness ==
    /\ RunOver(1)
    /\ nworkers[lq[1]] >= 2
    /\ Len(jobs[lq[1]]) = 4
    /\ Cardinality(Targets) >= 2
    /\ \A h \in Targets : cache[h] = IPs

\* C3: when a resolve() call that ran jobs returns, every configured target
\* with an answer from at least one job of the run has a non-empty cache
\* entry and is not in dead_hosts.
C3_ResolvedTargetNotDead ==
    \A c \in Callers :
        (pc[c] = "returned" /\ lq[c] # 0) =>
            \A h \in Targets :
                reported[lq[c]][h] # {} =>
                    /\ h \in DOMAIN cache
                    /\ cache[h] # {}
                    /\ h \notin dead_hosts

\* one job of target a answered, another failed
C3_Witness ==
    /\ pc[1] = "returned"
    /\ lq[1] # 0
    /\ hostnames = <<"a">>
    /\ Len(jobs[lq[1]]) = 2
    /\ reported[lq[1]]["a"] = {"i1"}
    /\ dead_hosts = {}

\* target h has a job in a run under the present configuration
HasJob(h) == \E i \in 1..Len(Enumerated) : Enumerated[i].host = h

\* C4 as claimed: when resolve() returns from a run, every configured target
\* whose jobs of the run all failed (a target without any job in the run is
\* not taken to be one) has the empty set in the cache and is in dead_hosts,
\* and no error was raised.
C4_Claimed ==
    \A c \in Callers :
        /\ pc[c] # "error"
        /\ (pc[c] = "returned" /\ lq[c] # 0) =>
              \A h \in Targets :
                  (HasJob(h) /\ reported[lq[c]][h] = {}) =>
                      /\ h \in DOMAIN cache
                      /\ cache[h] = {}
                      /\ h \in dead_hosts

\* C4 as amended: the same for every configured target that has at least
\* one job in the run and for which no job has reported an answer since the
\* cache was created or reset, in this run or an earlier one.
C4_AllFailedTargetDead ==
    \A c \in Callers :
        /\ pc[c] # "error"
        /\ (pc[c] = "returned" /\ lq[c] # 0) =>
              \A h \in Targets :
                  (HasJob(h) /\ ReportedFor(h) = {}) =>
                      /\ h \in DOMAIN cache
                      /\ cache[h] = {}
                      /\ h \in dead_hosts

C4_Witness ==
    /\ pc[1] = "returned"
    /\ lq[1] # 0
    /\ hostnames = <<"a", "b">>
    /\ Len(jobs[lq[1]]) = 4
    /\ ReportedFor("a") = {}
    /\ ReportedFor("b") # {}
    /\ dead_hosts = {"a"}

\* C5: the first resolve() of an engine whose target list is empty, unless an
\* external interrupt has ended it, is never
\* blocked (each of its steps, q.join() too, can be taken at once, and it
\* puts no job), raises nothing, and returns an empty cache.
C5_EmptyTargetsTerminates ==
    \A c \in Callers :
        (Running(c) /\ pc[c] # "exit" /\ fresh /\ hostnames = <<>>) =>
            /\ pc[c] # "error"
            /\ pc[c] # "returned" => ENABLED ResolveStep(c)
            /\ enqueued = 0
            /\ pc[c] = "returned" => cache = EmptyCache /\ dead_hosts = {}

C5_Witness ==
    /\ pc[1] = "returned"
    /\ fresh
    /\ hostnames = <<>>
    /\ nameservers = <<"n1", "n2">>
    /\ tries = 2
    /\ nworkers[lq[1]] = max_workers

\* C6: in every step other than a clear(), each key of the cache stays and
\* its set loses no element.
C6_CacheMonotone ==
    [][(\E c \in Callers, b \in BOOLEAN : clear(c, b))
       \/ \A h \in DOMAIN cache : h \in DOMAIN cache' /\ cache[h] \subseteq cache'[h]]_vars

\* a second run (after clear(cache=False)) has added to an entry of the first
C6_Witness ==
    /\ pc[1] = "returned"
    /\ lq[1] # 0
    /\ reported[lq[1]]["a"] = {"i2"}
    /\ answers["a"] = {"i1", "i2"}
    /\ cache["a"] = {"i1", "i2"}

\* the jobs caller c's present resolve() call has enqueued
JobsOfCall(c) == IF lq[c] = 0 THEN <<>> ELSE jobs[lq[c]]

\* C7 as claimed: every resolve() that returns (the engine is idle whenever
\* the one caller enters) has enqueued and run the jobs enumerated from the
\* present configuration, and left a cache entry for every target that has
\* a job.
C7_Claimed ==
    \A c \in Callers :
        pc[c] = "returned" =>
            /\ Len(JobsOfCall(c)) = num_queries(hostnames, tries, nameservers)
            /\ \A i \in 1..Len(Enumerated) : Enumerated[i].host \in DOMAIN cache

\* C8 as claimed: when the first resolve() after a clear() that reset the
\* cache returns, it has started a pool of its own, the cache keys are
\* exactly the targets configured, and every entry holds exactly what the new
\* run reported.
C8_Claimed ==
    \A c \in Callers :
        (pc[c] = "returned" /\ reset) =>
            /\ lq[c] # 0
            /\ DOMAIN cache = Targets
            /\ \A h \in DOMAIN cache : cache[h] = reported[lq[c]][h]

\* C9 as claimed: a resolve() entered while another resolve() on the same
\* instance is running creates no queue and no pool, enqueues nothing, raises
\* nothing, and is past q.join() only when the other call's queue has drained.
C9_Claimed ==
    \A c \in Callers :
        overlap[c] =>
            /\ lq[c] = 0
            /\ pc[c] # "error"
            /\ pc[c] \in {"dead", "returned"} => jq[c] # 0 /\ unfinished[jq[c]] = 0

\* C10 as claimed: when a resolve() that started a pool returns, no thread
\* of that pool is alive.
C10_Claimed ==
    \A c \in Callers :
        (pc[c] = "returned" /\ lq[c] # 0) => Alive(lq[c]) = 0

\* the configuration has targets and enumerates no job for them
ZeroJobConfig == hostnames # <<>> /\ num_queries(hostnames, tries, nameservers) = 0

\* C11 as claimed: no resolve() call returns normally under a configuration
\* that has targets and no job for them (empty nameservers, or tries = 0);
\* such a call ends with an error at entry.
C11_Claimed ==
    \A c \in Callers :
        ZeroJobConfig => pc[c] # "returned"

\* C12: a resolve() call that waits in q.join() leaves the wait either
\* because the queue has drained or, on an interrupt, by the fatal exit, not
\* by going on to a normal return; the interrupt can be taken in every state
\* of the wait; an exited call never gets back into resolve(); and neither
\* the interrupt step nor any step after it removes a key of the cache or an
\* element of an entry.
C12_InterruptExitsKeepsCache ==
    [][\A c \in Callers :
          /\ (pc[c] = "joining" /\ pc'[c] # "joining") =>
                (pc'[c] = "exit" \/ unfinished[jq[c]] = 0)
          /\ (pc[c] = "joining" /\ c = 1) => ENABLED resolve_interrupt(c)
          /\ pc[c] = "exit" => pc'[c] = "exit"
          /\ (pc[c] = "exit" \/ pc'[c] = "exit") =>
                \A h \in DOMAIN cache : h \in DOMAIN cache' /\ cache[h] \subseteq cache'[h]]_vars

\* interrupted in mid-run: results are merged, jobs are outstanding
C12_Witness ==
    /\ pc[1] = "exit"
    /\ unfinished[jq[1]] > 0
    /\ "a" \in DOMAIN cache
    /\ cache["a"] = {"i1"}
    /\ \E i \in 1..Len(jobs[jq[1]]) : jobs[jq[1]][i].st = "add"

\* the job's lookup has failed and its merge is not over
FailedJob(j) == j.st \in {"acquire", "check", "create"} /\ j.ips = {}

\* the next step of the thread that holds job i of queue g can be taken
ThreadCanStep(g, i) ==
    \/ jobs[g][i].st = "acquire" /\ (LockFree(g) => ENABLED update_cache_acquire(g, i))
    \/ jobs[g][i].st = "check" /\ ENABLED update_cache_check(g, i)
    \/ jobs[g][i].st = "create" /\ ENABLED update_cache_create(g, i)
    \/ jobs[g][i].st = "release" /\ ENABLED update_cache_release(g, i)
    \/ jobs[g][i].st = "task_done" /\ ENABLED run_task_done(g, i)

\* C13: whatever dns_lookup returns, a failure too, the worker goes on to the
\* merge; the merge of a failed job changes the cache at most by a new empty
\* entry for its own target, and no entry present loses an element; the
\* thread is never stuck in it other than waiting for the lock, marks the
\* job done, and is then free to dequeue again: no job is ever held by a
\* dead thread and no pool loses a thread.
C13_FailedLookupKeepsWorker ==
    [][\A g \in Queues :
          /\ nworkers'[g] >= nworkers[g] \/ \E c \in Callers, b \in BOOLEAN : clear(c, b)
          /\ \A i \in 1..Len(jobs[g]) :
                /\ (jobs[g][i].st = "lookup" /\ jobs'[g][i].st # "lookup") =>
                      jobs'[g][i].st = "acquire"
                /\ FailedJob(jobs[g][i]) =>
                      /\ ThreadCanStep(g, i)
                      /\ jobs'[g][i] # jobs[g][i] =>
                            /\ FailedJob(jobs'[g][i]) \/ jobs'[g][i].st = "release"
                            /\ \/ cache' = cache
                               \/ /\ jobs[g][i].host \notin DOMAIN cache
                                  /\ cache' = NewEntry(cache, jobs[g][i].host)
                /\ (jobs[g][i].st = "task_done" /\ jobs'[g][i].st # "task_done") =>
                      /\ jobs'[g][i].st = "done"
                      /\ unfinished'[g] = unfinished[g] - 1
                      /\ Busy(g)' = Busy(g) - 1]_vars

\* two workers, four jobs: the first job has answered for a, the second has
\* failed and is in its merge, and the thread of the first has dequeued the
\* third
C13_Witness ==
    \E g \in Queues :
        /\ nworkers[g] = 2
        /\ Len(jobs[g]) = 4
        /\ jobs[g][1].st = "done"
        /\ "a" \in DOMAIN cache
        /\ cache["a"] = {"i1"}
        /\ jobs[g][2].host = "a"
        /\ jobs[g][2].st = "check"
        /\ jobs[g][2].ips = {}
        /\ jobs[g][3].st = "lookup"

\* the pool size the sizing rule gives for n jobs
ClaimedPoolSize(n) ==
    IF n = 0 THEN max_workers ELSE IF n < max_workers THEN n ELSE max_workers

\* C14 as claimed: the pool a resolve() call has started has min(total jobs,
\* cap) threads, and cap threads whenever the total job count is zero.
C14_Claimed ==
    \A c \in Callers :
        lq[c] # 0 =>
            nworkers[lq[c]] = ClaimedPoolSize(num_queries(hostnames, tries, nameservers))

\* how often the pair (h, s) is in the job sequence e
TimesEnumerated(e, h, s) ==
    Cardinality({i \in 1..Len(e) : e[i] = [host |-> h, server |-> s]})

\* C15: for the configuration of a resolve() call that has created a queue
\* and is in the put loops (target and nameserver lists without repetition),
\* the jobs enumerated hold every (target, nameserver) pair exactly `tries`
\* times and nothing else, |targets| x |nameservers| x tries in all; for the
\* whole call, the queue never has more jobs than that, every put appends the next
\* enumerated job, nothing put is taken back, and once the put loops are over
\* the queue has been given all of them.
C15_EnumerationExact ==
    [][\A c \in Callers :
          lq[c] # 0 =>
              LET e == Enumerated
                  n == Len(jobs[lq[c]])
                  total == num_queries(hostnames, tries, nameservers)
              IN  /\ pc[c] = "put" =>
                        /\ \A h \in Hosts, s \in Servers :
                              TimesEnumerated(e, h, s) =
                                  IF h \in Targets /\ \E k \in 1..Len(nameservers) : nameservers[k] = s
                                  THEN tries
                                  ELSE 0
                        /\ Len(e) = Cardinality(Targets) * Len(nameservers) * tries
                        /\ Len(e) = total
                  /\ n <= total
                  /\ pc[c] \notin {"test", "put"} => n = total
                  /\ lq'[c] # 0 => Len(jobs'[lq[c]]) >= n
                  /\ Len(jobs'[lq[c]]) > n =>
                        /\ Len(jobs'[lq[c]]) = n + 1
                        /\ jobs'[lq[c]][n + 1] = NewJob(e[n + 1])]_vars

\* two targets, one nameserver, two tries: all four jobs are on the queue
C15_Witness ==
    /\ pc[1] = "set_q"
    /\ hostnames = <<"a", "b">>
    /\ nameservers = <<"n1">>
    /\ tries = 2
    /\ Len(jobs[lq[1]]) = 4
    /\ jobs[lq[1]][4] = NewJob([host |-> "b", server |-> "n1"])

\* job j is inside _update_cache(host, set(), lock), the lock taken
MergingEmpty(j) == j.st \in {"check", "create"} /\ j.ips = {}

\* C16: while a worker merges an empty result for a target, no other thread
\* changes the cache; the merge itself stores an empty set under the target
\* exactly when the target has no entry, and otherwise leaves the cache as it
\* is; the entries of all other targets stay as they are in both cases.
C16_EmptyMergeFrame ==
    [][\A g \in Queues : \A i \in 1..Len(jobs[g]) :
          MergingEmpty(jobs[g][i]) =>
              LET host == jobs[g][i].host
              IN  /\ jobs'[g][i] = jobs[g][i] => cache' = cache
                  /\ (jobs[g][i].st = "check" /\ jobs'[g][i] # jobs[g][i]) =>
                        /\ cache' = cache
                        /\ jobs'[g][i].st = IF host \in DOMAIN cache THEN "release" ELSE "create"
                  /\ jobs[g][i].st = "create" => host \notin DOMAIN cache
                  /\ (jobs[g][i].st = "create" /\ jobs'[g][i] # jobs[g][i]) =>
                        /\ DOMAIN cache' = DOMAIN cache \cup {host}
                        /\ cache'[host] = {}
                        /\ \A h \in DOMAIN cache : cache'[h] = cache[h]
                        /\ jobs'[g][i].st = "release"]_vars

\* target a has results; a failed job of b is about to store b's empty entry
C16_Witness ==
    \E g \in Queues : \E i \in 1..Len(jobs[g]) :
        /\ jobs[g][i].host = "b"
        /\ jobs[g][i].st = "create"
        /\ jobs[g][i].ips = {}
        /\ lock[g] = i
        /\ DOMAIN cache = {"a"}
        /\ cache["a"] = {"i1", "i2"}

\* where a thread is between lock.acquire() and lock.release()
InMerge == {"check", "create", "add", "release"}

\* C17: the lock of a pool is owned only by a thread that is inside the
\* merge: a thread in its lookup, one waiting for the lock, one about to mark
\* its job done, and one back at q.get() (its job done, or holding none) does
\* not own it.
C17_LockOnlyInMerge ==
    \A g \in Queues :
        /\ lock[g] # 0 =>
              /\ lock[g] \in 1..Len(jobs[g])
              /\ jobs[g][lock[g]].st \in InMerge
        /\ \A i \in 1..Len(jobs[g]) :
              jobs[g][i].st \in {"queued", "lookup", "acquire", "task_done", "done"} => lock[g] # i

\* one thread has been through a merge and is in the lookup of its next job
\* while another thread is inside the merge and owns the lock
C17_Witness ==
    \E g \in Queues :
        /\ Len(jobs[g]) = 4
        /\ jobs[g][1].st = "done"
        /\ jobs[g][2].st = "add"
        /\ lock[g] = 2
        /\ jobs[g][3].st = "lookup"

\* the threads, of any pool of the instance, that are inside the merge
ThreadsInMerge ==
    UNION {{<<g, i>> : i \in {k \in 1..Len(jobs[g]) : jobs[g][k].st \in InMerge}} : g \in Queues}

\* C18 as claimed: at most one worker thread of the instance is between
\* lock.acquire() and lock.release() of the merge at any time.
C18_Claimed == Cardinality(ThreadsInMerge) <= 1

\* C19: when a resolve() call has reached its return, the queue it waited on
\* is drained and dead_hosts is exactly the set of the cache keys whose entry
\* is the empty set, whichever run has left the key.
C19_DeadHostsExactAtReturn ==
    \A c \in Callers :
        pc[c] = "returned" =>
            /\ jq[c] # 0
            /\ unfinished[jq[c]] = 0
            /\ dead_hosts = {h \in DOMAIN cache : cache[h] = {}}

\* a later run of target a alone: b's empty entry is left by an earlier run,
\* and a has an answer
C19_Witness ==
    /\ pc[1] = "returned"
    /\ ~fresh
    /\ lq[1] # 0
    /\ hostnames = <<"a">>
    /\ DOMAIN cache = {"a", "b"}
    /\ cache["a"] = {"i1"}
    /\ cache["b"] = {}
    /\ dead_hosts = {"b"}

\* C20: with fair scheduling and lookups that return, and no interrupt, every
\* resolve() call that has entered comes to its return, and by then every
\* job it has put on the queue has been dequeued, merged and marked done;
\* this for every configuration in the bounds, those with more jobs than the
\* worker cap and those without any job among them.
C20_EveryRunCompletes ==
    (pc[1] = "test")
        ~> (pc[1] = "returned" /\ \A g \in Queues : unfinished[g] = 0 /\ AllDone(g))

\* a run with more jobs than worker threads has come to its return
C20_Witness ==
    /\ pc[1] = "returned"
    /\ lq[1] # 0
    /\ nworkers[lq[1]] > 0
    /\ Len(jobs[lq[1]]) > nworkers[lq[1]]
    /\ AllDone(lq[1])

====
